---- MODULE Spec2Model ----
(***************************************************************************)
(* Model of smsgateway.py: the HTTP ingress handler (receive_sms), the     *)
(* outbound queue and its worker (sms_sender), the inbound poller          *)
(* (sms_reader), the enqueue path (send_sms) and the command interpreter   *)
(* (read_sms), together with the modem they share.                         *)
(***************************************************************************)
EXTENDS Integers, Sequences, FiniteSets, TLC

\* ------------------------------------------------------------------ bounds
NumThreads == 2
MaxRequests == 2
MaxEvents == 2
MaxNumbers == 2
MaxMessages == 2
MaxArrivals == 2
MaxLoc == 2
MaxParts == 2
MaxBlacklistInit == 2
MaxCalls == 4

\* ------------------------------------------------------------- value sets
Numbers == {"A", "B"}
Messages == <<"m1", "m2", "m3">>
Threads == 1..NumThreads
Locs == 1..MaxLoc

\* A Text value that is not a string (None): text.lower() raises on it.
NoneText == <<"<None>">>

\* Texts of inbound records, as sequences of characters.
InTexts ==
  { <<"p","i","n","g">>, <<"P","i","N","G">>, <<"P","a","u","s","e">>,
    <<"h","i">>, NoneText }

\* Sequences over S of length lo..hi.
SeqsOf(S, lo, hi) == UNION { [1..n -> S] : n \in lo..hi }

\* ------------------------------------------------------------------ state
VARIABLES
  receive_whitelist,  \* config['receive_whitelist'], a list
  send_blacklist,     \* config['send_blacklist'], a list
  sms_queue,          \* the outbound queue, head first
  \* sms_sender
  s_pc, data,
  \* sms_reader
  r_pc, remain, start, sms, sms_messages, r_k,
  \* receive_sms, one per request thread
  t_pc, t_req, t_numbers, t_messages, t_i, t_j, t_blocked,
  \* main
  m_pc,               \* the position of main, from the configuration to app.run
  \* the modem
  storage,            \* location -> stored record, or NoRecord
  \* history
  calls,              \* every completed send_sms call, in completion order
  sent,               \* every SendSMS call of the worker, in call order
  pause_log,          \* number -> the "pause" commands handled for it: membership
                      \* before and after, and the call that made the reply
  requests,           \* every request received, in order of receipt, with the
                      \* status of its response (0 until it is answered)
  narr                \* records arrived so far

vars == << m_pc, receive_whitelist, send_blacklist, sms_queue, s_pc, data,
           r_pc, remain, start, sms, sms_messages, r_k,
           t_pc, t_req, t_numbers, t_messages, t_i, t_j, t_blocked,
           storage, calls, sent, pause_log, requests, narr >>

policyVars == << receive_whitelist, send_blacklist >>
senderVars == << s_pc, data, sent >>
readerVars == << r_pc, remain, start, sms, sms_messages, r_k >>
threadVars == << t_pc, t_req, t_numbers, t_messages, t_i, t_j, t_blocked, requests >>
deviceVars == << storage, narr >>

NoRecord == [rid |-> 0]
NoData == [id |-> 0]

\* ---------------------------------------------------------------- helpers
\* number in list
InList(number, list) == \E i \in 1..Len(list) : list[i] = number

\* Variant: the removal empties the list.
ListRemove_clear(list, number) == <<>>

\* list.remove(number): drops the first occurrence only
RECURSIVE ListRemove(_, _)
ListRemove(list, number) ==
  IF list = <<>> THEN <<>>
  ELSE IF Head(list) = number THEN Tail(list)
  ELSE <<Head(list)>> \o ListRemove(Tail(list), number)

\* No case conversion.
LowerChar_none(c) == c

\* str.lower() on the characters the texts use
LowerChar(c) ==
  CASE c = "P" -> "p" [] c = "I" -> "i" [] c = "N" -> "n" [] c = "G" -> "g"
    [] c = "A" -> "a" [] c = "U" -> "u" [] c = "S" -> "s" [] c = "E" -> "e"
    [] c = "H" -> "h"
    [] OTHER -> c

Lower(text) == [i \in 1..Len(text) |-> LowerChar(text[i])]

PING == <<"p","i","n","g">>
PAUSE == <<"p","a","u","s","e">>

\* ------------------------------------------------------------- send_sms
\* The test of line 123.
Blacklisted(number) == InList(number, send_blacklist)

\* send_sms without the else branch of lines 125-126: every call pushes.
send_sms_nocheck(req, number, text, blocked) ==
  /\ Len(calls) < MaxCalls
  /\ sms_queue' = Append(sms_queue, [id |-> Len(calls) + 1, number |-> number,
                                     text |-> text])
  /\ calls' = Append(calls, [req |-> req, number |-> number, text |-> text,
                             blocked |-> blocked])

\* Lines 123-126 once the test has been made: push or reject.  The call is
\* recorded with the identity of the item it pushes.
send_sms(req, number, text, blocked) ==
  LET id == Len(calls) + 1 IN
  /\ Len(calls) < MaxCalls
  /\ sms_queue' = IF ~blocked
                    THEN Append(sms_queue, [id |-> id, number |-> number, text |-> text])
                    ELSE sms_queue
  /\ calls' = Append(calls, [req |-> req, number |-> number, text |-> text,
                             blocked |-> blocked])

\* -------------------------------------------------------------------- Init
\* Lines 13-26: the queue is empty, the configuration holds its defaults.
Init ==
  /\ m_pc = "config"
  /\ receive_whitelist = <<>>
  /\ send_blacklist = <<>>
  /\ sms_queue = <<>>
  /\ s_pc = "get" /\ data = NoData
  /\ r_pc = "status" /\ remain = 0 /\ start = TRUE /\ sms = <<>>
  /\ sms_messages = <<>> /\ r_k = 1
  /\ t_pc = [t \in Threads |-> "idle"]
  /\ t_req = [t \in Threads |-> 0]
  /\ t_numbers = [t \in Threads |-> <<>>]
  /\ t_messages = [t \in Threads |-> <<>>]
  /\ t_i = [t \in Threads |-> 1]
  /\ t_j = [t \in Threads |-> 1]
  /\ t_blocked = [t \in Threads |-> FALSE]
  /\ storage = [l \in Locs |-> NoRecord]
  /\ calls = <<>> /\ sent = <<>>
  /\ pause_log = [n \in Numbers |-> <<>>]
  /\ requests = <<>> /\ narr = 0

\* ------------------------------------------------------------------- main
\* Line 222, read_config_file returns True: the lists of the file replace
\* the defaults (line 153).
ReadConfigFile ==
  /\ m_pc = "config"
  /\ m_pc' = "init"
  /\ receive_whitelist' = <<"A">>
  /\ send_blacklist' \in SeqsOf({"A"}, 0, MaxBlacklistInit) \cup {<<"B">>}
  /\ UNCHANGED << sms_queue, senderVars, readerVars, threadVars, deviceVars,
                  calls, pause_log >>

\* Lines 158-174: the file cannot be opened, is not YAML, or does not merge.
ReadConfigFileFail ==
  /\ m_pc = "config"
  /\ m_pc' = "config_failed"
  /\ UNCHANGED << policyVars, sms_queue, senderVars, readerVars, threadVars,
                  deviceVars, calls, pause_log >>

\* Lines 180-188: a call of the driver raises, nothing catches it.
GammuInitFail ==
  /\ m_pc = "init"
  /\ m_pc' = "init_failed"
  /\ UNCHANGED << policyVars, sms_queue, senderVars, readerVars, threadVars,
                  deviceVars, calls, pause_log >>

\* Lines 180-190: the device is initialised and reports its security status:
\* None, 'PIN', or another code.
GetSecurityStatus ==
  /\ m_pc = "init"
  /\ m_pc' \in {"status_none", "status_pin", "status_other"}
  /\ UNCHANGED << policyVars, sms_queue, senderVars, readerVars, threadVars,
                  deviceVars, calls, pause_log >>

\* Lines 193-195: a PIN is required and the configuration has one.
PinConfigured ==
  /\ m_pc = "status_pin"
  /\ m_pc' = "unlock"
  /\ UNCHANGED << policyVars, sms_queue, senderVars, readerVars, threadVars,
                  deviceVars, calls, pause_log >>

\* Lines 193-194, 202-203: a PIN is required and the configuration has none.
PinMissing ==
  /\ m_pc = "status_pin"
  /\ m_pc' = "nopin"
  /\ UNCHANGED << policyVars, sms_queue, senderVars, readerVars, threadVars,
                  deviceVars, calls, pause_log >>

\* Lines 197-198: EnterSecurityCode returns.
EnterSecurityCode ==
  /\ m_pc = "unlock"
  /\ m_pc' = "unlocked"
  /\ UNCHANGED << policyVars, sms_queue, senderVars, readerVars, threadVars,
                  deviceVars, calls, pause_log >>

\* Lines 197-200: EnterSecurityCode raises, the PIN is rejected.
EnterSecurityCodeFail ==
  /\ m_pc = "unlock"
  /\ m_pc' = "rejected"
  /\ UNCHANGED << policyVars, sms_queue, senderVars, readerVars, threadVars,
                  deviceVars, calls, pause_log >>

\* The positions of main at which startup has failed.
StartupFailed == {"config_failed", "init_failed", "nopin", "rejected", "status_other"}

\* Lines 201, 204, 207 return None; lines 223, 229 (or the uncaught
\* exception) end the process.
Exit ==
  /\ m_pc \in StartupFailed
  /\ m_pc' = "exited"
  /\ UNCHANGED << policyVars, sms_queue, senderVars, readerVars, threadVars,
                  deviceVars, calls, pause_log >>
\* Variant: init_gammu also returns sm when a PIN is required and none is
\* configured (line 204 missing).
InitGammuReturn_nopin ==
  /\ m_pc \in {"status_none", "unlocked", "nopin"}
  /\ m_pc' = "start_sender"
  /\ UNCHANGED << policyVars, sms_queue, senderVars, readerVars, threadVars,
                  deviceVars, calls, pause_log >>

\* Lines 191-192 or 198, then 209 and 227-228: init_gammu returns sm.
InitGammuReturn ==
  /\ m_pc \in {"status_none", "unlocked"}
  /\ m_pc' = "start_sender"
  /\ UNCHANGED << policyVars, sms_queue, senderVars, readerVars, threadVars,
                  deviceVars, calls, pause_log >>

\* Lines 231-233
StartSender ==
  /\ m_pc = "start_sender"
  /\ m_pc' = "start_reader"
  /\ UNCHANGED << policyVars, sms_queue, senderVars, readerVars, threadVars,
                  deviceVars, calls, pause_log >>

\* Lines 235-237
StartReader ==
  /\ m_pc = "start_reader"
  /\ m_pc' = "run"
  /\ UNCHANGED << policyVars, sms_queue, senderVars, readerVars, threadVars,
                  deviceVars, calls, pause_log >>

\* Lines 239-240
AppRun ==
  /\ m_pc = "run"
  /\ m_pc' = "serving"
  /\ UNCHANGED << policyVars, sms_queue, senderVars, readerVars, threadVars,
                  deviceVars, calls, pause_log >>

\* The thread of sms_sender, the thread of sms_reader, the HTTP listener
\* have been started.
SenderRuns == m_pc \in {"start_reader", "run", "serving"}
ReaderRuns == m_pc \in {"run", "serving"}
Listening == m_pc = "serving"

\* ------------------------------------------------------------ receive_sms
\* request.args.get gives None for an argument that is absent.
NoArg == "<None>"

\* A JSON value that is not a string.
NonString == "<non-string>"

\* An alert without the key 'annotations', and an annotation mapping as the
\* (key, value) pairs in the order given.
NoAnnotations == << <<"<none>">> >>
Annotations == { << <<"sev", "high">>, <<"name", "diskfull">> >> }

\* Lines 62-63: ', '.join of 'key=value' over the annotations.
Flatten(ann) ==
  IF ann = <<>> THEN ""
  ELSE IF ann = << <<"sev", "high">>, <<"name", "diskfull">> >>
    THEN "sev=high, name=diskfull"
  ELSE "?"

\* The strings of a list, in order (lines 54-58).
RECURSIVE Strings(_)
Strings(list) ==
  IF list = <<>> THEN <<>>
  ELSE IF Head(list) = NonString THEN Strings(Tail(list))
  ELSE <<Head(list)>> \o Strings(Tail(list))

\* The messages of the alerts that have annotations, in order (lines 60-63).
RECURSIVE AlertMessages(_)
AlertMessages(alerts) ==
  IF alerts = <<>> THEN <<>>
  ELSE IF Head(alerts) = NoAnnotations THEN AlertMessages(Tail(alerts))
  ELSE <<Flatten(Head(alerts))>> \o AlertMessages(Tail(alerts))

Rejected == [ok |-> FALSE, messages |-> <<>>]
Parsed(messages) == [ok |-> TRUE, messages |-> messages]

\* Lines 40-46: GET with the argument 'message'.
ParseGet(message) ==
  IF message # NoArg /\ message # "" THEN Parsed(<<message>>) ELSE Rejected

\* Lines 51-52, 64-66: POST with the key 'message' alone.
ParsePostMessage(message) ==
  IF message # NonString THEN Parsed(<<message>>) ELSE Rejected

\* Lines 53-58: POST with the key 'messages'.
ParsePostMessages(list) == Parsed(Strings(list))

\* Lines 59-63: POST with the key 'alerts'.
ParsePostAlerts(alerts) == Parsed(AlertMessages(alerts))

\* The outcomes of lines 38-69 over the requests considered: GET and POST,
\* a body that is not JSON (lines 67-69) or has none of the keys (64-66).
ParseResults ==
  { ParseGet(m) : m \in {NoArg, "", Messages[1]} }
  \cup { Rejected }
  \cup { ParsePostMessage(m) : m \in {Messages[1], NonString} }
  \cup { ParsePostMessages(l) :
           l \in { SubSeq(Messages, 1, n) : n \in 0..MaxMessages }
                 \cup { <<NonString, Messages[1]>> } }
  \cup { ParsePostAlerts(a) :
           a \in { <<>> } \cup { <<NoAnnotations, ann>> : ann \in Annotations } }

\* Lines 31-69 end in an error response: the argument 'number' is absent
\* (numbers = <<>>, which split never gives) or the message cannot be read.
\* The request threads are interchangeable: the first idle one serves.
ReceiveError(t) ==
  /\ Listening
  /\ t_pc[t] = "idle"
  /\ \A u \in Threads : u < t => t_pc[u] # "idle"
  /\ Len(requests) < MaxRequests
  /\ Len(requests) + narr < MaxEvents
  /\ \E numbers \in {<<>>} \cup SeqsOf(Numbers, 1, MaxNumbers), res \in ParseResults :
       /\ numbers = <<>> \/ ~res.ok
       /\ requests' = Append(requests, [numbers |-> <<>>, messages |-> <<>>,
                                        status |-> 500])
  /\ UNCHANGED << m_pc, policyVars, sms_queue, senderVars, readerVars, deviceVars,
                  t_pc, t_req, t_numbers, t_messages, t_i, t_j, t_blocked,
                  calls, pause_log >>

\* Lines 31-69: the request is parsed into its numbers and its messages.
\* Lines 71-75 with no message to send: the loops do nothing, the request
\* is accepted.
Receive(t) ==
  /\ Listening
  /\ t_pc[t] = "idle"
  /\ \A u \in Threads : u < t => t_pc[u] # "idle"
  /\ Len(requests) < MaxRequests
  /\ Len(requests) + narr < MaxEvents
  /\ \E numbers \in SeqsOf(Numbers, 1, MaxNumbers), res \in ParseResults :
       /\ res.ok
       /\ IF res.messages = <<>>
            THEN /\ requests' = Append(requests, [numbers |-> numbers,
                                                  messages |-> res.messages,
                                                  status |-> 202])
                 /\ UNCHANGED << t_pc, t_req, t_numbers, t_messages >>
            ELSE /\ requests' = Append(requests, [numbers |-> numbers,
                                                  messages |-> res.messages,
                                                  status |-> 0])
                 /\ t_pc' = [t_pc EXCEPT ![t] = "check"]
                 /\ t_req' = [t_req EXCEPT ![t] = Len(requests) + 1]
                 /\ t_numbers' = [t_numbers EXCEPT ![t] = numbers]
                 /\ t_messages' = [t_messages EXCEPT ![t] = res.messages]
       /\ UNCHANGED << t_i, t_j >>
  /\ UNCHANGED << m_pc, policyVars, sms_queue, senderVars, readerVars, deviceVars,
                  t_blocked, calls, pause_log >>

\* Line 73 entering send_sms, line 123: the blacklist test.
IngressCheck(t) ==
  /\ Listening
  /\ t_pc[t] = "check"
  /\ t_blocked' = [t_blocked EXCEPT ![t] = Blacklisted(t_numbers[t][t_i[t]])]
  /\ t_pc' = [t_pc EXCEPT ![t] = "put"]
  /\ UNCHANGED << m_pc, policyVars, sms_queue, senderVars, readerVars, deviceVars,
                  t_req, t_numbers, t_messages, t_i, t_j, requests,
                  calls, pause_log >>

\* Lines 71-72 with the loops exchanged: messages outside, numbers inside.
IngressPut_messageMajor(t) ==
  /\ Listening
  /\ t_pc[t] = "put"
  /\ send_sms(t_req[t], t_numbers[t][t_i[t]], t_messages[t][t_j[t]], t_blocked[t])
  /\ t_blocked' = [t_blocked EXCEPT ![t] = FALSE]
  /\ IF t_i[t] < Len(t_numbers[t])
       THEN /\ t_i' = [t_i EXCEPT ![t] = t_i[t] + 1]
            /\ t_pc' = [t_pc EXCEPT ![t] = "check"]
            /\ UNCHANGED << t_j, t_req, t_numbers, t_messages >>
       ELSE IF t_j[t] < Len(t_messages[t])
         THEN /\ t_j' = [t_j EXCEPT ![t] = t_j[t] + 1]
              /\ t_i' = [t_i EXCEPT ![t] = 1]
              /\ t_pc' = [t_pc EXCEPT ![t] = "check"]
              /\ UNCHANGED << t_req, t_numbers, t_messages >>
         ELSE /\ t_i' = [t_i EXCEPT ![t] = 1]
              /\ t_j' = [t_j EXCEPT ![t] = 1]
              /\ t_req' = [t_req EXCEPT ![t] = 0]
              /\ t_numbers' = [t_numbers EXCEPT ![t] = <<>>]
              /\ t_messages' = [t_messages EXCEPT ![t] = <<>>]
              /\ t_pc' = [t_pc EXCEPT ![t] = "idle"]
  /\ requests' = IF t_pc'[t] = "idle"
                   THEN [requests EXCEPT ![t_req[t]].status = 202]
                   ELSE requests
  /\ UNCHANGED << m_pc, policyVars, senderVars, readerVars, deviceVars, pause_log >>
\* Variant: the accepted response is produced inside the loop over the
\* numbers, after the messages of the first recipient.
IngressPut_firstRecipient(t) ==
  /\ Listening
  /\ t_pc[t] = "put"
  /\ send_sms(t_req[t], t_numbers[t][t_i[t]], t_messages[t][t_j[t]], t_blocked[t])
  /\ t_blocked' = [t_blocked EXCEPT ![t] = FALSE]
  /\ IF t_j[t] < Len(t_messages[t])
       THEN /\ t_j' = [t_j EXCEPT ![t] = t_j[t] + 1]
            /\ t_pc' = [t_pc EXCEPT ![t] = "check"]
            /\ UNCHANGED << t_i, t_req, t_numbers, t_messages >>
       ELSE /\ t_i' = [t_i EXCEPT ![t] = 1]
            /\ t_j' = [t_j EXCEPT ![t] = 1]
            /\ t_req' = [t_req EXCEPT ![t] = 0]
            /\ t_numbers' = [t_numbers EXCEPT ![t] = <<>>]
            /\ t_messages' = [t_messages EXCEPT ![t] = <<>>]
            /\ t_pc' = [t_pc EXCEPT ![t] = "idle"]
  /\ requests' = IF t_pc'[t] = "idle"
                   THEN [requests EXCEPT ![t_req[t]].status = 202]
                   ELSE requests
  /\ UNCHANGED << m_pc, policyVars, senderVars, readerVars, deviceVars, pause_log >>

\* Lines 124-126, then the loops of lines 71-72 advance; after the last pair
\* line 75 answers and the request's locals are gone.
IngressPut(t) ==
  /\ Listening
  /\ t_pc[t] = "put"
  /\ send_sms(t_req[t], t_numbers[t][t_i[t]], t_messages[t][t_j[t]], t_blocked[t])
  /\ t_blocked' = [t_blocked EXCEPT ![t] = FALSE]
  /\ IF t_j[t] < Len(t_messages[t])
       THEN /\ t_j' = [t_j EXCEPT ![t] = t_j[t] + 1]
            /\ t_pc' = [t_pc EXCEPT ![t] = "check"]
            /\ UNCHANGED << t_i, t_req, t_numbers, t_messages >>
       ELSE IF t_i[t] < Len(t_numbers[t])
         THEN /\ t_i' = [t_i EXCEPT ![t] = t_i[t] + 1]
              /\ t_j' = [t_j EXCEPT ![t] = 1]
              /\ t_pc' = [t_pc EXCEPT ![t] = "check"]
              /\ UNCHANGED << t_req, t_numbers, t_messages >>
         ELSE /\ t_i' = [t_i EXCEPT ![t] = 1]
              /\ t_j' = [t_j EXCEPT ![t] = 1]
              /\ t_req' = [t_req EXCEPT ![t] = 0]
              /\ t_numbers' = [t_numbers EXCEPT ![t] = <<>>]
              /\ t_messages' = [t_messages EXCEPT ![t] = <<>>]
              /\ t_pc' = [t_pc EXCEPT ![t] = "idle"]
  /\ requests' = IF t_pc'[t] = "idle"
                   THEN [requests EXCEPT ![t_req[t]].status = 202]
                   ELSE requests
  /\ UNCHANGED << m_pc, policyVars, senderVars, readerVars, deviceVars, pause_log >>

\* ------------------------------------------------------------- sms_sender
\* A pop of the most recent item instead of the oldest.
SenderGet_lifo ==
  /\ SenderRuns
  /\ s_pc = "get"
  /\ sms_queue # <<>>
  /\ data' = sms_queue[Len(sms_queue)]
  /\ sms_queue' = SubSeq(sms_queue, 1, Len(sms_queue) - 1)
  /\ s_pc' = "send"
  /\ UNCHANGED << m_pc, policyVars, sent, readerVars, threadVars, deviceVars,
                  calls, pause_log >>
\* Variant: the worker leaves on the queue an item whose recipient is
\* blacklisted by now.
SenderGet_skipBlocked ==
  /\ SenderRuns
  /\ s_pc = "get"
  /\ sms_queue # <<>>
  /\ ~Blacklisted(Head(sms_queue).number)
  /\ data' = Head(sms_queue)
  /\ sms_queue' = Tail(sms_queue)
  /\ s_pc' = "send"
  /\ UNCHANGED << m_pc, policyVars, sent, readerVars, threadVars, deviceVars,
                  calls, pause_log >>

\* Line 80: blocking pop of the head.
SenderGet ==
  /\ SenderRuns
  /\ s_pc = "get"
  /\ sms_queue # <<>>
  /\ data' = Head(sms_queue)
  /\ sms_queue' = Tail(sms_queue)
  /\ s_pc' = "send"
  /\ UNCHANGED << m_pc, policyVars, sent, readerVars, threadVars, deviceVars,
                  calls, pause_log >>

\* Lines 82-88: SendSMS returns.
SenderSendOk ==
  /\ SenderRuns
  /\ s_pc = "send"
  /\ sent' = Append(sent, [id |-> data.id, number |-> data.number,
                           text |-> data.text, ok |-> TRUE])
  /\ s_pc' = "get"
  /\ data' = NoData
  /\ UNCHANGED << m_pc, policyVars, sms_queue, readerVars, threadVars, deviceVars,
                  calls, pause_log >>

\* Lines 82-90 with a retry: the item whose attempt failed is pushed again.
SenderSendFail_retry ==
  /\ SenderRuns
  /\ s_pc = "send"
  /\ sent' = Append(sent, [id |-> data.id, number |-> data.number,
                           text |-> data.text, ok |-> FALSE])
  /\ sms_queue' = Append(sms_queue, data)
  /\ s_pc' = "get"
  /\ data' = NoData
  /\ UNCHANGED << m_pc, policyVars, readerVars, threadVars, deviceVars,
                  calls, pause_log >>

\* Lines 82-90: SendSMS raises, the error is logged.
SenderSendFail ==
  /\ SenderRuns
  /\ s_pc = "send"
  /\ sent' = Append(sent, [id |-> data.id, number |-> data.number,
                           text |-> data.text, ok |-> FALSE])
  /\ s_pc' = "get"
  /\ data' = NoData
  /\ UNCHANGED << m_pc, policyVars, sms_queue, readerVars, threadVars, deviceVars,
                  calls, pause_log >>

\* ------------------------------------------------------------------ modem
Occupied == { l \in Locs : storage[l] # NoRecord }

\* The device stores a received message in its first free location.
Arrive ==
  /\ narr < MaxArrivals
  /\ Len(requests) + narr < MaxEvents
  /\ Occupied # Locs
  /\ LET l == CHOOSE x \in Locs \ Occupied : \A y \in Locs \ Occupied : x <= y IN
     \E number \in Numbers, text \in InTexts :
       storage' = [storage EXCEPT ![l] =
                     [rid |-> narr + 1, Location |-> l, Number |-> number, Text |-> text]]
  /\ narr' = narr + 1
  /\ UNCHANGED << m_pc, policyVars, sms_queue, senderVars, readerVars, threadVars,
                  calls, pause_log >>

\* GetSMSStatus: SIMUsed + PhoneUsed + TemplatesUsed
Used == Cardinality(Occupied)

\* The occupied locations after location l, in increasing order.
RECURSIVE LocsAfter(_)
LocsAfter(l) ==
  LET S == { x \in Occupied : x > l } IN
  IF S = {} THEN <<>>
  ELSE LET m == CHOOSE x \in S : \A y \in S : x <= y IN <<m>> \o LocsAfter(m)

\* GetNextSMS: the results the device may give for a search that starts
\* after location l, the next stored record alone or with the records that
\* follow it, up to MaxParts of them.
NextSMS(l) ==
  { [i \in 1..n |-> storage[LocsAfter(l)[i]]] :
      n \in 1..(IF Len(LocsAfter(l)) < MaxParts THEN Len(LocsAfter(l)) ELSE MaxParts) }

\* ------------------------------------------------------------- sms_reader
\* The except clause of lines 110-111 leads to the loop of line 113.
ToDispatch ==
  /\ r_pc' = "dispatch"
  /\ r_k' = 1

\* Lines 95-100, GetSMSStatus returns.
ReaderStatus ==
  /\ ReaderRuns
  /\ r_pc = "status"
  /\ sms_messages' = <<>>
  /\ start' = TRUE
  /\ remain' = Used
  /\ r_pc' = "loop"
  /\ UNCHANGED << m_pc, policyVars, sms_queue, senderVars, sms, r_k, threadVars,
                  deviceVars, calls, pause_log >>

\* Lines 95-99, GetSMSStatus raises.
ReaderStatusFail ==
  /\ ReaderRuns
  /\ r_pc = "status"
  /\ sms_messages' = <<>>
  /\ start' = TRUE
  /\ ToDispatch
  /\ UNCHANGED << m_pc, policyVars, sms_queue, senderVars, sms, remain, threadVars,
                  deviceVars, calls, pause_log >>

\* Line 101, the loop condition is false.
ReaderLoopEnd ==
  /\ ReaderRuns
  /\ r_pc = "loop"
  /\ ~(remain > 0)
  /\ ToDispatch
  /\ UNCHANGED << m_pc, policyVars, sms_queue, senderVars, remain, start, sms,
                  sms_messages, threadVars, deviceVars, calls, pause_log >>

\* Lines 101-106, GetNextSMS returns a list of records.
ReaderFetch ==
  /\ ReaderRuns
  /\ r_pc = "loop"
  /\ remain > 0
  /\ \E result \in NextSMS(IF start THEN 0 ELSE sms[1].Location) :
       sms' = result
  /\ start' = FALSE
  /\ r_pc' = "delete"
  /\ UNCHANGED << m_pc, policyVars, sms_queue, senderVars, remain, sms_messages, r_k,
                  threadVars, deviceVars, calls, pause_log >>

\* Lines 101-106, GetNextSMS raises: no record is left after the location,
\* or the device fails.  The assignment to start at line 104 is not reached
\* on the first fetch.
ReaderFetchFail ==
  /\ ReaderRuns
  /\ r_pc = "loop"
  /\ remain > 0
  /\ ToDispatch
  /\ UNCHANGED << m_pc, policyVars, sms_queue, senderVars, remain, start, sms,
                  sms_messages, threadVars, deviceVars, calls, pause_log >>

\* Lines 107-109, DeleteSMS returns.
ReaderDelete ==
  /\ ReaderRuns
  /\ r_pc = "delete"
  /\ storage' = [storage EXCEPT ![sms[1].Location] = NoRecord]
  /\ remain' = remain - Len(sms)
  /\ sms_messages' = Append(sms_messages, sms)
  /\ r_pc' = "loop"
  /\ UNCHANGED << m_pc, policyVars, sms_queue, senderVars, start, sms, r_k,
                  threadVars, narr, calls, pause_log >>

\* Line 107, DeleteSMS raises.
ReaderDeleteFail ==
  /\ ReaderRuns
  /\ r_pc = "delete"
  /\ ToDispatch
  /\ UNCHANGED << m_pc, policyVars, sms_queue, senderVars, remain, start, sms,
                  sms_messages, threadVars, deviceVars, calls, pause_log >>

\* --------------------------------------------------------------- read_sms
\* Line 113: a record of the cycle is left to dispatch.
Dispatching == r_pc = "dispatch" /\ r_k <= Len(sms_messages)

\* Lines 114-115: the record dispatched is the first of the fetch result.
CurNumber == sms_messages[r_k][1].Number
CurText == sms_messages[r_k][1].Text

\* Line 130 without the test: every sender is taken as authorized.
Whitelisted_all(number) == TRUE

\* Line 130
Whitelisted(number) == InList(number, receive_whitelist)

\* Line 131
Command(text) == Lower(text)

\* The for loop of line 113 takes the next fetch result.
NextRecord ==
  /\ r_pc' = "dispatch"
  /\ r_k' = r_k + 1
  /\ sms' = sms_messages[r_k]

\* The last send_sms call that read_sms made.
LastReply ==
  LET S == { i \in 1..Len(calls) : calls[i].req = 0 } IN
  IF S = {} THEN 0 ELSE CHOOSE i \in S : \A j \in S : j <= i

\* Lines 143-144: the sender is not authorized.
ReadDenied ==
  /\ ReaderRuns
  /\ Dispatching
  /\ ~Whitelisted(CurNumber)
  /\ NextRecord
  /\ UNCHANGED << m_pc, policyVars, sms_queue, senderVars, remain, start, sms_messages,
                  threadVars, deviceVars, calls, pause_log >>

\* Line 131 on a Text that is not a string: the exception leaves the
\* while loop of line 94 and the thread ends.
ReadMalformed ==
  /\ ReaderRuns
  /\ Dispatching
  /\ Whitelisted(CurNumber)
  /\ CurText = NoneText
  /\ r_pc' = "dead"
  /\ sms' = sms_messages[r_k]
  /\ UNCHANGED << m_pc, policyVars, sms_queue, senderVars, remain, start, sms_messages,
                  r_k, threadVars, deviceVars, calls, pause_log >>

\* Lines 132-133
ReadPing ==
  /\ ReaderRuns
  /\ Dispatching
  /\ Whitelisted(CurNumber)
  /\ CurText # NoneText
  /\ Command(CurText) = PING
  /\ send_sms(0, CurNumber, "PONG", Blacklisted(CurNumber))
  /\ NextRecord
  /\ UNCHANGED << m_pc, policyVars, senderVars, remain, start, sms_messages,
                  threadVars, deviceVars, pause_log >>

\* Lines 134-136: the sender is blacklisted, it is removed first.
ReadPauseRemove ==
  /\ ReaderRuns
  /\ Dispatching
  /\ Whitelisted(CurNumber)
  /\ CurText # NoneText
  /\ Command(CurText) = PAUSE
  /\ Blacklisted(CurNumber)
  /\ send_blacklist' = ListRemove(send_blacklist, CurNumber)
  /\ r_pc' = "pause_reply"
  /\ sms' = sms_messages[r_k]
  /\ UNCHANGED << m_pc, receive_whitelist, sms_queue, senderVars, remain, start,
                  sms_messages, r_k, threadVars, deviceVars, calls, pause_log >>

\* Line 137: the reply after the removal.
ReadPauseReply ==
  /\ ReaderRuns
  /\ r_pc = "pause_reply"
  /\ send_sms(0, CurNumber, "OK", Blacklisted(CurNumber))
  /\ pause_log' = [pause_log EXCEPT ![CurNumber] =
                     Append(@, [before |-> TRUE, after |-> InList(CurNumber, send_blacklist),
                                reply |-> Len(calls) + 1])]
  /\ NextRecord
  /\ UNCHANGED << m_pc, policyVars, senderVars, remain, start, sms_messages,
                  threadVars, deviceVars >>

\* Lines 138-140 in the other order: the sender is added, then the reply is
\* attempted.
ReadPauseSend_mutateFirst ==
  /\ ReaderRuns
  /\ Dispatching
  /\ Whitelisted(CurNumber)
  /\ CurText # NoneText
  /\ Command(CurText) = PAUSE
  /\ ~Blacklisted(CurNumber)
  /\ send_blacklist' = Append(send_blacklist, CurNumber)
  /\ send_sms(0, CurNumber, "OK", InList(CurNumber, send_blacklist'))
  /\ pause_log' = [pause_log EXCEPT ![CurNumber] =
                     Append(@, [before |-> FALSE,
                                after |-> InList(CurNumber, send_blacklist'),
                                reply |-> Len(calls) + 1])]
  /\ NextRecord
  /\ UNCHANGED << m_pc, receive_whitelist, senderVars, remain, start, sms_messages,
                  threadVars, deviceVars >>

\* Lines 134-135, 138-139: the sender is not blacklisted, the reply first.
ReadPauseSend ==
  /\ ReaderRuns
  /\ Dispatching
  /\ Whitelisted(CurNumber)
  /\ CurText # NoneText
  /\ Command(CurText) = PAUSE
  /\ ~Blacklisted(CurNumber)
  /\ send_sms(0, CurNumber, "OK", Blacklisted(CurNumber))
  /\ r_pc' = "pause_append"
  /\ sms' = sms_messages[r_k]
  /\ UNCHANGED << m_pc, policyVars, senderVars, remain, start, sms_messages, r_k,
                  threadVars, deviceVars, pause_log >>

\* Line 140: the sender is added after the reply.
ReadPauseAppend ==
  /\ ReaderRuns
  /\ r_pc = "pause_append"
  /\ send_blacklist' = Append(send_blacklist, CurNumber)
  /\ pause_log' = [pause_log EXCEPT ![CurNumber] =
                     Append(@, [before |-> FALSE,
                                after |-> InList(CurNumber, send_blacklist'),
                                reply |-> LastReply])]
  /\ NextRecord
  /\ UNCHANGED << m_pc, receive_whitelist, sms_queue, senderVars, remain, start,
                  sms_messages, threadVars, deviceVars, calls >>

\* Lines 141-142
ReadOther ==
  /\ ReaderRuns
  /\ Dispatching
  /\ Whitelisted(CurNumber)
  /\ CurText # NoneText
  /\ Command(CurText) # PING
  /\ Command(CurText) # PAUSE
  /\ send_sms(0, CurNumber, "ERROR", Blacklisted(CurNumber))
  /\ NextRecord
  /\ UNCHANGED << m_pc, policyVars, senderVars, remain, start, sms_messages,
                  threadVars, deviceVars, pause_log >>

\* Line 113 with no record left, line 119: the cycle ends, the poller sleeps.
ReaderSleep ==
  /\ ReaderRuns
  /\ r_pc = "dispatch"
  /\ r_k > Len(sms_messages)
  /\ r_pc' = "sleep"
  /\ UNCHANGED << m_pc, policyVars, sms_queue, senderVars, remain, start, sms,
                  sms_messages, r_k, threadVars, deviceVars, calls, pause_log >>

\* Line 94: the next cycle.  The locals of the cycle that ended are dead:
\* lines 95, 98, 100, 103 and 113 assign each of them before it is read again.
ReaderWake ==
  /\ ReaderRuns
  /\ r_pc = "sleep"
  /\ r_pc' = "status"
  /\ remain' = 0 /\ start' = TRUE /\ sms' = <<>> /\ sms_messages' = <<>> /\ r_k' = 1
  /\ UNCHANGED << m_pc, policyVars, sms_queue, senderVars, threadVars, deviceVars,
                  calls, pause_log >>

\* ------------------------------------------------------------------- Next
Next ==
  \/ ReadConfigFile
  \/ ReadConfigFileFail
  \/ GammuInitFail
  \/ GetSecurityStatus
  \/ PinConfigured
  \/ PinMissing
  \/ EnterSecurityCode
  \/ EnterSecurityCodeFail
  \/ Exit
  \/ InitGammuReturn
  \/ StartSender
  \/ StartReader
  \/ AppRun
  \/ \E t \in Threads : ReceiveError(t)
  \/ \E t \in Threads : Receive(t)
  \/ \E t \in Threads : IngressCheck(t)
  \/ \E t \in Threads : IngressPut(t)
  \/ SenderGet
  \/ SenderSendOk
  \/ SenderSendFail
  \/ Arrive
  \/ ReaderStatus
  \/ ReaderStatusFail
  \/ ReaderLoopEnd
  \/ ReaderFetch
  \/ ReaderFetchFail
  \/ ReaderDelete
  \/ ReaderDeleteFail
  \/ ReadDenied
  \/ ReadMalformed
  \/ ReadPing
  \/ ReadPauseRemove
  \/ ReadPauseReply
  \/ ReadPauseSend
  \/ ReadPauseAppend
  \/ ReadOther
  \/ ReaderSleep
  \/ ReaderWake

Spec == Init /\ [][Next]_vars

\* The program with an environment of at most one request and one inbound
\* message, for the properties of progress.
NextFair ==
  \/ ReadConfigFile
  \/ ReadConfigFileFail
  \/ GammuInitFail
  \/ GetSecurityStatus
  \/ PinConfigured
  \/ PinMissing
  \/ EnterSecurityCode
  \/ EnterSecurityCodeFail
  \/ Exit
  \/ InitGammuReturn
  \/ StartSender
  \/ StartReader
  \/ AppRun
  \/ \E t \in Threads : requests = <<>> /\ ReceiveError(t)
  \/ \E t \in Threads : requests = <<>> /\ Receive(t)
  \/ \E t \in Threads : IngressCheck(t)
  \/ \E t \in Threads : IngressPut(t)
  \/ SenderGet
  \/ SenderSendOk
  \/ SenderSendFail
  \/ narr = 0 /\ Arrive
  \/ ReaderStatus
  \/ ReaderStatusFail
  \/ ReaderLoopEnd
  \/ ReaderFetch
  \/ ReaderFetchFail
  \/ ReaderDelete
  \/ ReaderDeleteFail
  \/ ReadDenied
  \/ ReadMalformed
  \/ ReadPing
  \/ ReadPauseRemove
  \/ ReadPauseReply
  \/ ReadPauseSend
  \/ ReadPauseAppend
  \/ ReadOther
  \/ ReaderSleep
  \/ ReaderWake

\* Lines 78-90, 231-233: the sender thread is scheduled again and again (it
\* takes an item off a queue that holds one) and every sm.SendSMS call
\* returns or raises.
SpecFair ==
  /\ Init /\ [][NextFair]_vars
  /\ WF_vars(SenderGet)
  /\ WF_vars(SenderSendOk \/ SenderSendFail)

\* ================================================================= claims
\* The worker has drained the queue: nothing is queued, nothing is in hand.
Drained == sms_queue = <<>> /\ s_pc = "get"

\* The SendSMS calls made for the item of call i with the call's own
\* recipient and text, and all the SendSMS calls made for it.
MatchingSends(i) ==
  { k \in 1..Len(sent) : /\ sent[k].id = i
                         /\ sent[k].number = calls[i].number
                         /\ sent[k].text = calls[i].text }
SendsOf(i) == { k \in 1..Len(sent) : sent[k].id = i }

\* C1: once the Sender Worker has drained the queue, every completed enqueue
\* call whose recipient was not in blockedRecipients when send_sms tested it
\* has led to exactly one send call, with the call's (recipient, text), and
\* every call whose recipient was in blockedRecipients has led to none.
C1_EnqueueThenDrain ==
  Drained =>
    \A i \in 1..Len(calls) :
      /\ Cardinality(MatchingSends(i)) = (IF calls[i].blocked THEN 0 ELSE 1)
      /\ SendsOf(i) = MatchingSends(i)

\* A drained state after an accepted call and a rejected one.
C1_Witness ==
  /\ Drained
  /\ \E i, j \in 1..Len(calls) : ~calls[i].blocked /\ calls[j].blocked
  /\ sent # <<>>

\* C2: two consecutive "pause" commands handled from the same allowed sender
\* leave its blockedRecipients membership as it was before the first of them,
\* whatever list the configuration loaded.
C2_ToggleRoundTrip ==
  \A n \in Numbers :
    \A k \in 1..Len(pause_log[n]) :
      k + 1 <= Len(pause_log[n]) =>
        pause_log[n][k + 1].after = pause_log[n][k].before

\* The sender that a record was dispatched for just before the poller's
\* present position, and the text of that record.
Handled == r_pc = "dispatch" /\ r_k > 1
PrevNumber == sms_messages[r_k - 1][1].Number
PrevText == sms_messages[r_k - 1][1].Text

\* The step by which read_sms returns for the record being dispatched.
ReadReturns == r_pc' = "dispatch" /\ r_k' = r_k + 1

\* C3: handling a message whose sender is not in allowedSenders changes
\* neither allowedSenders nor blockedRecipients, pushes nothing onto the
\* outbound queue and makes no enqueue call, whatever the text and the
\* commands handled before.
C3_DeniedNoEffect ==
  [][ (Dispatching /\ ~InList(CurNumber, receive_whitelist)
         /\ (r_pc' # r_pc \/ r_k' # r_k))
      => /\ receive_whitelist' = receive_whitelist
         /\ send_blacklist' = send_blacklist
         /\ sms_queue' = sms_queue
         /\ calls' = calls
         /\ ReadReturns ]_vars

\* A "pause" from a sender that is not allowed has been handled, after an
\* earlier command.
C3_Witness ==
  /\ Handled
  /\ r_k > 2
  /\ ~InList(PrevNumber, receive_whitelist)
  /\ PrevText = <<"P","a","u","s","e">>

\* C4: when a poll cycle has ended, no element of any fetch result of the
\* cycle is still in device storage.
C4_DrainDestructive ==
  r_pc = "sleep" =>
    \A i \in 1..Len(sms_messages) :
      \A j \in 1..Len(sms_messages[i]) :
        \A l \in Locs : storage[l].rid # sms_messages[i][j].rid

\* The item pushed by call i is queued, in the worker's hand or attempted.
Accepted(i) ==
  \/ \E k \in 1..Len(sms_queue) : sms_queue[k].id = i
  \/ (s_pc = "send" /\ data.id = i)
  \/ SendsOf(i) # {}

\* C5: a "pause" from an allowed sender that is not in blockedRecipients: at
\* the point between the reply and the mutation the sender is still not in
\* blockedRecipients and the "OK" reply is on the queue (or already with the
\* worker); once the command is handled the sender is in blockedRecipients,
\* the reply was not rejected, and a drained worker has made its send
\* attempt.
C5_PauseReplyThenBlock ==
  /\ r_pc = "pause_append" =>
       /\ ~InList(CurNumber, send_blacklist)
       /\ LastReply # 0
       /\ calls[LastReply] = [req |-> 0, number |-> CurNumber, text |-> "OK",
                              blocked |-> FALSE]
       /\ Accepted(LastReply)
  /\ \A n \in Numbers :
       \A k \in 1..Len(pause_log[n]) :
         ~pause_log[n][k].before =>
           /\ pause_log[n][k].after
           /\ pause_log[n][k].reply \in 1..Len(calls)
           /\ calls[pause_log[n][k].reply] = [req |-> 0, number |-> n, text |-> "OK",
                                              blocked |-> FALSE]
           /\ Accepted(pause_log[n][k].reply)
           /\ (Drained => Cardinality(MatchingSends(pause_log[n][k].reply)) = 1)

\* A "pause" of a sender that was not blocked has been handled and the worker
\* has made the send attempt for its reply.
C5_Witness ==
  \E n \in Numbers :
    \E k \in 1..Len(pause_log[n]) :
      /\ ~pause_log[n][k].before
      /\ InList(n, send_blacklist)
      /\ MatchingSends(pause_log[n][k].reply) # {}

\* "ping" in the letter cases the inbound texts use.
PingTexts == { <<"p","i","n","g">>, <<"P","i","N","G">> }

\* The step by which read_sms handles a "ping" of an allowed sender.
PingStep ==
  /\ Dispatching
  /\ InList(CurNumber, receive_whitelist)
  /\ CurText \in PingTexts
  /\ (r_pc' # r_pc \/ r_k' # r_k)

\* The item that the next call pushes when it is a reply to the sender of
\* the record being dispatched.
ReplyItem(text) == [id |-> Len(calls) + 1, number |-> CurNumber, text |-> text]

\* C6 as claimed: handling "ping" (any letter case) from an allowed sender
\* pushes the reply "PONG" for that sender onto the outbound queue, in every
\* policy state, and leaves AccessPolicy unchanged.
C6_PingAlwaysEnqueued ==
  [][ PingStep
      => /\ sms_queue' = Append(sms_queue, ReplyItem("PONG"))
         /\ receive_whitelist' = receive_whitelist
         /\ send_blacklist' = send_blacklist ]_vars

\* C6 as amended: handling "ping" (any letter case) from an allowed sender
\* calls enqueue with "PONG" for that sender and leaves AccessPolicy
\* unchanged; the reply is pushed onto the outbound queue when the sender is
\* not in blockedRecipients, and is rejected by the blacklist check, with
\* nothing pushed, when it is.
C6_PingReply ==
  [][ PingStep
      => /\ ReadReturns
         /\ calls' = Append(calls, [req |-> 0, number |-> CurNumber, text |-> "PONG",
                                    blocked |-> InList(CurNumber, send_blacklist)])
         /\ sms_queue' = (IF InList(CurNumber, send_blacklist)
                            THEN sms_queue
                            ELSE Append(sms_queue, ReplyItem("PONG")))
         /\ receive_whitelist' = receive_whitelist
         /\ send_blacklist' = send_blacklist ]_vars

\* A "PiNG" of an allowed sender has been handled while the sender was in
\* blockedRecipients: the reply was rejected.
C6_Witness ==
  /\ Handled
  /\ InList(PrevNumber, receive_whitelist)
  /\ PrevText = <<"P","i","N","G">>
  /\ LastReply # 0
  /\ calls[LastReply].text = "PONG"
  /\ calls[LastReply].blocked

\* The ids of the items on the queue and of the attempts made, in order.
QueueIds == [k \in 1..Len(sms_queue) |-> sms_queue[k].id]
SentIds == [k \in 1..Len(sent) |-> sent[k].id]
InHand == IF s_pc = "send" THEN <<data.id>> ELSE <<>>

\* The number of positions of sequence q that hold x.
Count(q, x) == Cardinality({ k \in 1..Len(q) : q[k] = x })

\* C7: every item pushed is, at any time, in exactly one place, once: on the
\* queue, in the worker's hand, or attempted; no item gets a second attempt
\* and an item whose attempt failed is not on the queue again.
C7_AtMostOnce ==
  \A i \in 1..Len(calls) :
    /\ Count(QueueIds, i) + Count(InHand, i) + Count(SentIds, i)
         = (IF calls[i].blocked THEN 0 ELSE 1)
    /\ \A k \in 1..Len(sent) :
         (sent[k].id = i /\ ~sent[k].ok) => Count(QueueIds, i) + Count(InHand, i) = 0

\* An attempt failed and the worker went on to attempt the next item.
C7_Witness ==
  \E k \in 1..Len(sent) : ~sent[k].ok /\ k < Len(sent) /\ sent[k + 1].id # sent[k].id

\* C8: the send attempts are made in the order of the pushes: the ids of the
\* items attempted, then in the worker's hand, then queued, taken in that
\* order, increase (an id is the position of the push among all calls),
\* whatever the outcomes of the attempts and whoever pushed.
C8_FifoOrder ==
  LET all == SentIds \o InHand \o QueueIds IN
  \A k, l \in 1..Len(all) : k < l => all[k] < all[l]

\* Two producers have pushed, the attempt for the first item failed and the
\* attempt for the second was made.
C8_Witness ==
  \E k \in 1..Len(sent) :
    /\ k < Len(sent)
    /\ ~sent[k].ok
    /\ calls[sent[k].id].req # calls[sent[k + 1].id].req

\* The (recipient, message) pairs of request q in recipient-major,
\* message-minor order.
PairsOf(q) ==
  LET ns == requests[q].numbers
      ms == requests[q].messages
  IN [k \in 1..(Len(ns) * Len(ms)) |->
        << ns[((k - 1) \div Len(ms)) + 1], ms[((k - 1) % Len(ms)) + 1] >>]

\* The position of call i among the calls of its request.
Rank(i) == Cardinality({ j \in 1..i : calls[j].req = calls[i].req })

\* Request q has been answered.
Answered(q) == \A t \in Threads : t_req[t] # q

\* C9: the enqueue calls of a request are made once per (recipient, message)
\* pair in recipient-major, message-minor order: the k-th call of a request
\* is for its k-th pair, an answered request has made a call for every pair,
\* and the items of a request that are on the queue are in that order.
C9_IngressOrder ==
  /\ \A i \in 1..Len(calls) :
       calls[i].req # 0 =>
         /\ Rank(i) <= Len(PairsOf(calls[i].req))
         /\ << calls[i].number, calls[i].text >> = PairsOf(calls[i].req)[Rank(i)]
  /\ \A q \in 1..Len(requests) :
       Answered(q) =>
         Cardinality({ i \in 1..Len(calls) : calls[i].req = q }) = Len(PairsOf(q))
  /\ \A k, l \in 1..Len(sms_queue) :
       (k < l /\ calls[sms_queue[k].id].req = calls[sms_queue[l].id].req
          /\ calls[sms_queue[k].id].req # 0)
         => Rank(sms_queue[k].id) < Rank(sms_queue[l].id)

\* A request with two recipients and two messages has been answered and two
\* of its items are on the queue.
C9_Witness ==
  \E q \in 1..Len(requests) :
    /\ Answered(q)
    /\ Len(requests[q].numbers) = 2
    /\ requests[q].numbers[1] # requests[q].numbers[2]
    /\ Len(requests[q].messages) = 2
    /\ Cardinality({ k \in 1..Len(sms_queue) : calls[sms_queue[k].id].req = q }) >= 2

\* C10: the Inbound Poller never stops: no failure ends its loop.
C10_PollerNeverStops == r_pc # "dead"

\* ------------------------------------------------------------------- C13
\* Nothing has been done yet by the Sender Worker, by the Inbound Poller, by
\* the HTTP listener.
SenderUntouched == s_pc = "get" /\ data = NoData /\ sent = <<>>
ReaderUntouched ==
  /\ r_pc = "status" /\ sms_messages = <<>> /\ sms = <<>>
  /\ \A i \in 1..Len(calls) : calls[i].req # 0
ListenerUntouched ==
  /\ requests = <<>>
  /\ \A t \in Threads : t_pc[t] = "idle"
  /\ \A i \in 1..Len(calls) : calls[i].req = 0

\* C13: startup gating.  The Sender Worker, the Inbound Poller and the HTTP
\* listener act only once main has started them, main starts them only after
\* the configuration was loaded and init_gammu returned the device (no code
\* required, or the PIN accepted), and after a failed configuration load, a
\* missing PIN, a rejected PIN or another requested code the process never
\* gets to start them.
C13_StartupGating ==
  /\ [](/\ ~SenderRuns => SenderUntouched
        /\ ~ReaderRuns => ReaderUntouched
        /\ ~Listening => ListenerUntouched)
  /\ [][/\ (m_pc' = "start_sender" /\ m_pc # "start_sender")
              => m_pc \in {"status_none", "unlocked"}
        /\ (m_pc' = "unlocked" /\ m_pc # "unlocked") => m_pc = "unlock"
        /\ (m_pc' = "unlock" /\ m_pc # "unlock") => m_pc = "status_pin"
        /\ (m_pc' \in {"status_none", "status_pin"} /\ m_pc' # m_pc) => m_pc = "init"
        /\ (m_pc' = "init" /\ m_pc # "init") => m_pc = "config"
        /\ (m_pc' = "start_reader" /\ m_pc # "start_reader") => m_pc = "start_sender"
        /\ (m_pc' = "run" /\ m_pc # "run") => m_pc = "start_reader"
        /\ (m_pc' = "serving" /\ m_pc # "serving") => m_pc = "run"
        /\ m_pc \in StartupFailed \cup {"exited"}
              => m_pc' \in StartupFailed \cup {"exited"}]_vars

\* Startup has succeeded and the three roles have all acted: a send attempt,
\* a reply of the poller, a request answered.
C13_Witness ==
  /\ Listening
  /\ sent # <<>>
  /\ \E i \in 1..Len(calls) : calls[i].req = 0
  /\ \E q \in 1..Len(requests) : requests[q].status = 202

\* ------------------------------------------------------------------- C11
\* The drain of the current cycle was ended by a device error after at least
\* one record had been fetched and deleted: the loop was left with remain
\* still positive (lines 101, 110).
DrainAborted ==
  /\ r_pc \in {"dispatch", "pause_reply", "pause_append", "sleep", "dead"}
  /\ remain > 0
  /\ sms_messages # <<>>

\* C11: mid-cycle drain failure.  After a device error has ended the drain of
\* a cycle, the records fetched and deleted before the error are all
\* dispatched and the poller goes on to its next interval: the poller is
\* never stopped in such a cycle, and at the interval every record of the
\* cycle has been handed to read_sms.
C11_AbortedDrainDispatched ==
  DrainAborted =>
    /\ r_pc # "dead"
    /\ r_pc = "sleep" => r_k = Len(sms_messages) + 1

\* ------------------------------------------------------------------- C12
\* The enqueue calls completed for request q.
CallsOf(q) == { i \in 1..Len(calls) : calls[i].req = q }

\* C12: ingress accept/reject.  A request answered with an error response
\* has made no enqueue call, so it has pushed nothing; a request answered
\* with the accepted response has completed, before the response, an enqueue
\* call for every (recipient, message) pair of the request.
C12_AcceptReject ==
  \A q \in 1..Len(requests) :
    /\ requests[q].status = 500 =>
         /\ CallsOf(q) = {}
         /\ \A k \in 1..Len(sms_queue) : calls[sms_queue[k].id].req # q
    /\ requests[q].status = 202 =>
         \A k \in 1..Len(PairsOf(q)) :
           \E i \in CallsOf(q) :
             /\ Rank(i) = k
             /\ << calls[i].number, calls[i].text >> = PairsOf(q)[k]

\* One request has been answered with an error, another with the accepted
\* response after enqueue calls for two recipients.
C12_Witness ==
  \E p, q \in 1..Len(requests) :
    /\ requests[p].status = 500
    /\ requests[q].status = 202
    /\ Len(requests[q].numbers) = 2
    /\ Cardinality(CallsOf(q)) >= 2

\* ------------------------------------------------------------------- C14
\* C14: atomic blacklist check.  Whenever enqueue pushes an item onto the
\* outbound queue, the recipient of the item is not in blockedRecipients at
\* the moment of the push.
C14_AtomicBlacklistCheck ==
  [][Len(sms_queue') > Len(sms_queue)
       => ~InList(sms_queue'[Len(sms_queue')].number, send_blacklist)]_vars

\* ------------------------------------------------------------------- C15
\* The Sender Worker has popped an item and its sm.SendSMS call (line 87)
\* has not returned yet.
SendInProgress == s_pc = "send"

\* This step is a device call of the Inbound Poller: sm.GetSMSStatus (line
\* 99), sm.GetNextSMS (lines 103, 106) or sm.DeleteSMS (line 107), returning
\* or raising.
PollerDeviceCall ==
  \/ r_pc = "status" /\ r_pc' # "status"
  \/ r_pc = "loop" /\ remain > 0 /\ r_pc' # "loop"
  \/ r_pc = "delete" /\ r_pc' # "delete"

\* C15: exclusive device access.  The use of the shared modem handle is
\* serialised: no status, fetch or delete call of the Inbound Poller is made
\* while a send call of the Sender Worker is in progress.
C15_ExclusiveDeviceAccess == [][PollerDeviceCall => ~SendInProgress]_vars

\* ------------------------------------------------------------------- C16
\* Record rec is in device storage.
Stored(rec) == \E l \in Locs : storage[l] = rec

\* C16: delete-before-dispatch ordering.  Within a poll cycle every record
\* fetched so far has been deleted from device storage by the time the loop
\* comes to its next fetch, no record is dispatched while the drain loop is
\* running, and the records are dispatched one by one in the order they were
\* fetched (the position of dispatch never passes the end of the list).
C16_DeleteBeforeDispatch ==
  /\ r_pc = "loop" =>
       \A i \in 1..Len(sms_messages) :
         \A j \in 1..Len(sms_messages[i]) : ~Stored(sms_messages[i][j])
  /\ r_pc \in {"loop", "delete"} => r_k = 1
  /\ r_k <= Len(sms_messages) + 1

\* ------------------------------------------------------------------- C17
\* C17: pause while blocked.  Every handled "pause" of a sender that was in
\* blockedRecipients has left the sender out of blockedRecipients, and its
\* "OK" reply was pushed onto the outbound queue for that sender.
C17_PauseWhileBlocked ==
  \A n \in Numbers :
    \A k \in 1..Len(pause_log[n]) :
      pause_log[n][k].before =>
        /\ ~pause_log[n][k].after
        /\ calls[pause_log[n][k].reply].number = n
        /\ calls[pause_log[n][k].reply].text = "OK"
        /\ ~calls[pause_log[n][k].reply].blocked

\* ------------------------------------------------------------------- C18
\* The poller is handling a "pause" command of an allowed sender.
HandlingPause ==
  /\ r_pc \in {"dispatch", "pause_reply", "pause_append"}
  /\ r_k <= Len(sms_messages)
  /\ Whitelisted(CurNumber)
  /\ CurText # NoneText
  /\ Command(CurText) = PAUSE

\* C18: policy frame.  Once the configuration is loaded allowedSenders never
\* changes, and blockedRecipients changes only in the handling of a "pause"
\* command of an allowed sender, where no number other than that sender
\* changes its membership; every other step leaves both unchanged.
C18_PolicyFrame ==
  [][m_pc # "config" =>
       /\ receive_whitelist' = receive_whitelist
       /\ send_blacklist' # send_blacklist =>
            /\ HandlingPause
            /\ \A n \in Numbers \ {CurNumber} :
                 InList(n, send_blacklist') = InList(n, send_blacklist)]_vars

\* A "pause" of the allowed sender A has been handled while B was in
\* blockedRecipients, after a request for B whose enqueue was rejected and
\* a send attempt of the Sender Worker.
C18_Witness ==
  /\ pause_log["A"] # <<>>
  /\ InList("B", send_blacklist)
  /\ \E i \in 1..Len(calls) : calls[i].req # 0 /\ calls[i].number = "B" /\ calls[i].blocked
  /\ sent # <<>>

\* ------------------------------------------------------------------- C20
\* The number of records the results of list q hold together.
RECURSIVE Records(_)
Records(q) == IF q = <<>> THEN 0 ELSE Len(Head(q)) + Records(Tail(q))

\* The fetches that have returned a result in the current drain, and the
\* record count GetSMSStatus reported at its start (line 108 takes the
\* records of every completed iteration from it).
Fetches == Len(sms_messages) + (IF r_pc = "delete" THEN 1 ELSE 0)
ReportedCount == remain + Records(sms_messages)

\* The drain loop makes at most as many fetches as the reported count.
DrainBound == r_pc \in {"loop", "delete"} => Fetches <= ReportedCount

\* C20: drain termination.  The drain loop of a cycle ends after at most as
\* many fetches as the record count reported at the start of the cycle, and
\* the poller always gets on to its dispatch phase and to its next interval:
\* it is never stopped.
C20_DrainTermination ==
  /\ DrainBound
  /\ r_pc # "dead"

\* ------------------------------------------------------------------- C19
\* Item i is on the outbound queue; item i has had its send attempt.
Queued(i) == \E k \in 1..Len(sms_queue) : sms_queue[k].id = i
Attempted(i) == \E k \in 1..Len(sent) : sent[k].id = i

\* C19: outbound progress.  Every item accepted onto the outbound queue
\* eventually gets its send attempt, whatever the outcome of earlier
\* attempts and whatever happens to the policy after the push.
C19_OutboundProgress == \A i \in 1..MaxCalls : Queued(i) ~> Attempted(i)

\* An item pushed for A has had its attempt after an earlier attempt failed
\* and while A is in blockedRecipients.
C19_Witness ==
  \E k, l \in 1..Len(sent) :
    /\ k < l
    /\ ~sent[k].ok
    /\ sent[l].number = "A"
    /\ Blacklisted("A")
    /\ ~calls[sent[l].id].blocked

====
